---- MODULE Spec2Model ----
(***************************************************************************)
(* A model of merge_sites_Version2.py: the canonical key of a site         *)
(* (normalize_site), the recovery of a "sites" array from response text    *)
(* (extract_sites_from_text, fetch_and_extract), the resolution of the     *)
(* index document into URLs and the merge loop of main().                  *)
(*                                                                         *)
(* Text is modelled as a sequence of lexemes (one string per JSON token,   *)
(* per white-space run or per other character); a parsed JSON value is a   *)
(* record [t, lit, keys, kids] that keeps the insertion order of object    *)
(* keys, as a Python dict does.                                            *)
(***************************************************************************)
EXTENDS Integers, Sequences, FiniteSets, TLC

VARIABLES
    pc, data, max, urls, idx, processed, merged, seen, gets, fetched,
    written, out, exit_code,
    a, b, ka, kb,
    text, ext, fae

vars == <<pc, data, max, urls, idx, processed, merged, seen, gets, fetched,
          written, out, exit_code, a, b, ka, kb, text, ext, fae>>

mainVars == <<data, max, urls, idx, processed, merged, seen, gets, fetched,
              written, out, exit_code>>
canonVars == <<a, b, ka, kb>>
extractVars == <<text, ext, fae>>

----------------------------------------------------------------------------
(* JSON values as Python's json module holds them.                         *)

Q == "\""

Scalar(t, lit) == [t |-> t, lit |-> lit, keys |-> <<>>, kids |-> <<>>]
JNull == Scalar("null", "null")
JTrue == Scalar("bool", "true")
JFalse == Scalar("bool", "false")
JInt(lit) == Scalar("int", lit)
JFloat(lit) == Scalar("float", lit)
JStr(s) == Scalar("str", s)
JArr(kids) == [t |-> "arr", lit |-> "", keys |-> <<>>, kids |-> kids]
JObj(keys, kids) == [t |-> "obj", lit |-> "", keys |-> keys, kids |-> kids]

IsList(v) == v.t = "arr"
IsDict(v) == v.t = "obj"
IsStr(v) == v.t = "str"

Range(s) == {s[i] : i \in 1..Len(s)}

HasKey(obj, k) == \E i \in 1..Len(obj.keys) : obj.keys[i] = k
Get(obj, k) == obj.kids[CHOOSE i \in 1..Len(obj.keys) : obj.keys[i] = k]
\* dict.get(k): the value, or None when the key is absent
DictGet(obj, k) == IF HasKey(obj, k) THEN Get(obj, k) ELSE JNull

\* Python's truth value of a decoded JSON value
Truthy(v) ==
    CASE v.t = "null" -> FALSE
      [] v.t = "bool" -> v.lit = "true"
      [] v.t = "int" -> v.lit # "0"
      [] v.t = "float" -> v.lit # "0.0"
      [] v.t = "str" -> v.lit # ""
      [] OTHER -> Len(v.kids) > 0

\* x or y
PyOr(x, y) == IF Truthy(x) THEN x ELSE y

\* the code-point order of the key strings the model uses
CodePointOrder == <<"SITES", "Url", "a", "b", "link", "nope", "sites", "url", "urls">>
Rank(k) == CHOOSE i \in 1..Len(CodePointOrder) : CodePointOrder[i] = k

RECURSIVE SortedIdx(_, _)
\* the positions of `keys` among `left`, in ascending key order
SortedIdx(keys, left) ==
    IF left = {} THEN <<>>
    ELSE LET m == CHOOSE i \in left : \A j \in left : Rank(keys[i]) <= Rank(keys[j])
         IN <<m>> \o SortedIdx(keys, left \ {m})

\* the order in which json.dumps emits the members of a dict
MemberOrder(v, sort_keys) ==
    IF sort_keys THEN SortedIdx(v.keys, 1..Len(v.keys))
    ELSE [i \in 1..Len(v.keys) |-> i]

RECURSIVE Dumps(_, _)
RECURSIVE DumpItems(_, _, _)
RECURSIVE DumpMembers(_, _, _, _)

\* the elements of a list from position i on, separated by ", "
DumpItems(kids, i, sort_keys) ==
    IF i > Len(kids) THEN <<>>
    ELSE (IF i > 1 THEN <<", ">> ELSE <<>>)
         \o Dumps(kids[i], sort_keys) \o DumpItems(kids, i + 1, sort_keys)

\* the members of a dict, in the order `ord`, from position i on
DumpMembers(v, ord, i, sort_keys) ==
    IF i > Len(ord) THEN <<>>
    ELSE (IF i > 1 THEN <<", ">> ELSE <<>>)
         \o <<Q, v.keys[ord[i]], Q, ": ">>
         \o Dumps(v.kids[ord[i]], sort_keys)
         \o DumpMembers(v, ord, i + 1, sort_keys)

\* json.dumps(v, sort_keys=...), as a sequence of output lexemes
Dumps(v, sort_keys) ==
    CASE v.t = "str" -> <<Q, v.lit, Q>>
      [] v.t = "arr" -> <<"[">> \o DumpItems(v.kids, 1, sort_keys) \o <<"]">>
      [] v.t = "obj" ->
            <<"{">> \o DumpMembers(v, MemberOrder(v, sort_keys), 1, sort_keys) \o <<"}">>
      [] OTHER -> <<v.lit>>

\* normalize_site without sort_keys: the key keeps the order of the entry
normalize_site_unsorted(item) == Dumps(item, FALSE)

normalize_site(item) == Dumps(item, TRUE)

----------------------------------------------------------------------------
(* Text: a sequence of lexemes [k, s]. k is "p" (one of the six structural *)
(* characters), "ws" (a run of JSON white space), "str" (a string literal  *)
(* with content s), "num" (a number literal), "lit" (true, false, null) or *)
(* "junk" (any other character).                                           *)

P(c) == [k |-> "p", s |-> c]
Ws == [k |-> "ws", s |-> " "]
StrLit(s) == [k |-> "str", s |-> s]
Num(s) == [k |-> "num", s |-> s]
Lit(s) == [k |-> "lit", s |-> s]
Junk == [k |-> "junk", s |-> "x"]

IntLits == {"0", "1", "2"}

\* the Python value of a number literal
NumberValue(s) == IF s \in IntLits THEN JInt(s) ELSE JFloat(s)
\* the Python value of true, false, null
LiteralValue(s) == IF s = "null" THEN JNull ELSE Scalar("bool", s)

Fail == [ok |-> FALSE, val |-> JNull, pos |-> 0]
Ok(v, p) == [ok |-> TRUE, val |-> v, pos |-> p]

RECURSIVE SkipWs(_, _)
\* the first position from i on that holds no white space
SkipWs(tx, i) ==
    IF i <= Len(tx) /\ tx[i].k = "ws" THEN SkipWs(tx, i + 1) ELSE i

\* d[k] = v on an insertion-ordered dict: a repeated key keeps its place
DictSet(keys, kids, k, v) ==
    IF \E i \in 1..Len(keys) : keys[i] = k
    THEN [keys |-> keys,
          kids |-> [i \in 1..Len(kids) |-> IF keys[i] = k THEN v ELSE kids[i]]]
    ELSE [keys |-> Append(keys, k), kids |-> Append(kids, v)]

RECURSIVE ParseValue(_, _)
RECURSIVE ParseArray(_, _, _, _)
RECURSIVE ParseObject(_, _, _, _)

\* an array once its element r is parsed: "," and the next element, or "]"
ArrayAfterItem(tx, r, j, acc) ==
    IF ~r.ok \/ j > Len(tx) THEN Fail
    ELSE IF tx[j] = P(",")
         THEN ParseArray(tx, SkipWs(tx, j + 1), Append(acc, r.val), FALSE)
    ELSE IF tx[j] = P("]") THEN Ok(JArr(Append(acc, r.val)), j + 1)
    ELSE Fail

\* the elements of an array from position i on (white space skipped)
ParseArray(tx, i, acc, first) ==
    IF i > Len(tx) THEN Fail
    ELSE IF first /\ tx[i] = P("]") THEN Ok(JArr(acc), i + 1)
    ELSE ArrayAfterItem(tx, ParseValue(tx, i), SkipWs(tx, ParseValue(tx, i).pos), acc)

\* an object once the member value r is parsed and stored in e: "," and the
\* next member, or "}"
ObjectAfterValue(tx, r, j, e) ==
    IF ~r.ok \/ j > Len(tx) THEN Fail
    ELSE IF tx[j] = P(",") THEN ParseObject(tx, SkipWs(tx, j + 1), e, FALSE)
    ELSE IF tx[j] = P("}") THEN Ok(JObj(e.keys, e.kids), j + 1)
    ELSE Fail

\* an object member whose key stands at i and whose value was parsed as r
ObjectMember(tx, i, r, d) ==
    ObjectAfterValue(tx, r, SkipWs(tx, r.pos), DictSet(d.keys, d.kids, tx[i].s, r.val))

\* the members of an object from position i on (white space skipped)
ParseObject(tx, i, d, first) ==
    IF i > Len(tx) THEN Fail
    ELSE IF first /\ tx[i] = P("}") THEN Ok(JObj(d.keys, d.kids), i + 1)
    ELSE IF tx[i].k # "str" THEN Fail
    ELSE IF SkipWs(tx, i + 1) > Len(tx) \/ tx[SkipWs(tx, i + 1)] # P(":") THEN Fail
    ELSE ObjectMember(tx, i, ParseValue(tx, SkipWs(tx, SkipWs(tx, i + 1) + 1)), d)

\* one JSON value starting at position i
ParseValue(tx, i) ==
    IF i > Len(tx) THEN Fail
    ELSE CASE tx[i].k = "str" -> Ok(JStr(tx[i].s), i + 1)
           [] tx[i].k = "num" -> Ok(NumberValue(tx[i].s), i + 1)
           [] tx[i].k = "lit" -> Ok(LiteralValue(tx[i].s), i + 1)
           [] tx[i] = P("[") -> ParseArray(tx, SkipWs(tx, i + 1), <<>>, TRUE)
           [] tx[i] = P("{") ->
                ParseObject(tx, SkipWs(tx, i + 1), [keys |-> <<>>, kids |-> <<>>], TRUE)
           [] OTHER -> Fail

\* the end of decode: only white space may follow the value
LoadsEnd(tx, r) == IF r.ok /\ SkipWs(tx, r.pos) = Len(tx) + 1 THEN r ELSE Fail

\* json.loads(text): ok = FALSE stands for the exception it raises
json_loads(tx) == LoadsEnd(tx, ParseValue(tx, SkipWs(tx, 1)))

\* re.IGNORECASE on the literal "sites"
IsSitesKey(lex) == lex.k = "str" /\ lex.s \in {"sites", "SITES"}

\* the end of the match of SITES_REGEX that starts at position i, 0 if none:
\* "sites" \s* : \s* [ then lazily up to the first ]
MatchAt(tx, i) ==
    IF ~IsSitesKey(tx[i]) THEN [lo |-> 0, hi |-> 0]
    ELSE LET c == SkipWs(tx, i + 1)
         IN IF c > Len(tx) \/ tx[c] # P(":") THEN [lo |-> 0, hi |-> 0]
            ELSE LET o == SkipWs(tx, c + 1)
                 IN IF o > Len(tx) \/ tx[o] # P("[") THEN [lo |-> 0, hi |-> 0]
                    ELSE LET close == {e \in (o + 1)..Len(tx) : tx[e] = P("]")}
                         IN IF close = {} THEN [lo |-> 0, hi |-> 0]
                            ELSE [lo |-> o,
                                  hi |-> CHOOSE e \in close : \A f \in close : e <= f]

\* SITES_REGEX.search(text): group(1) of the leftmost match
SitesSearch(tx) ==
    LET starts == {i \in 1..Len(tx) : MatchAt(tx, i).lo # 0}
    IN IF starts = {} THEN [found |-> FALSE, group1 |-> <<>>]
       ELSE LET i == CHOOSE s \in starts : \A r \in starts : s <= r
                m == MatchAt(tx, i)
            IN [found |-> TRUE, group1 |-> SubSeq(tx, m.lo, m.hi)]

RECURSIVE StripTrailingCommas(_, _)
\* re.sub(r",\s*([\]\}])", r"\1", text) from position i on
StripTrailingCommas(tx, i) ==
    IF i > Len(tx) THEN <<>>
    ELSE LET j == SkipWs(tx, i + 1)
         IN IF tx[i] = P(",") /\ j <= Len(tx) /\ tx[j] \in {P("]"), P("}")}
            THEN <<tx[j]>> \o StripTrailingCommas(tx, j + 1)
            ELSE <<tx[i]>> \o StripTrailingCommas(tx, i + 1)

\* extract_sites_from_text with the step that answered: 1 the whole-document
\* parse, 2 the parse of the regex capture, 3 the parse of the repaired
\* capture, 0 the final return []
NoSites == [sites |-> <<>>, step |-> 0]

\* lines 70-75: the parse of the cleaned capture
ExtractRepaired(arr) ==
    IF arr.ok /\ IsList(arr.val) THEN [sites |-> arr.val.kids, step |-> 3] ELSE NoSites

\* lines 64-69: the parse of the capture; its exception leads to the repair
ExtractCaptured(arr_text, arr) ==
    IF arr.ok
    THEN (IF IsList(arr.val) THEN [sites |-> arr.val.kids, step |-> 2] ELSE NoSites)
    ELSE ExtractRepaired(json_loads(StripTrailingCommas(arr_text, 1)))

\* lines 61-63: the regex search
ExtractSearched(m) ==
    IF m.found THEN ExtractCaptured(m.group1, json_loads(m.group1)) ELSE NoSites

\* the whole-document parse answering [] for a JSON document of another
\* shape instead of going on to the regex
ExtractParsedNoFallthrough(tx, obj) ==
    IF obj.ok /\ IsDict(obj.val) /\ HasKey(obj.val, "sites")
       /\ IsList(Get(obj.val, "sites"))
    THEN [sites |-> Get(obj.val, "sites").kids, step |-> 1]
    ELSE IF obj.ok /\ IsList(obj.val) THEN [sites |-> obj.val.kids, step |-> 1]
    ELSE IF obj.ok THEN NoSites
    ELSE ExtractSearched(SitesSearch(tx))

\* lines 51-59: the whole-document parse
ExtractParsed(tx, obj) ==
    IF obj.ok /\ IsDict(obj.val) /\ HasKey(obj.val, "sites")
       /\ IsList(Get(obj.val, "sites"))
    THEN [sites |-> Get(obj.val, "sites").kids, step |-> 1]
    ELSE IF obj.ok /\ IsList(obj.val) THEN [sites |-> obj.val.kids, step |-> 1]
    ELSE ExtractSearched(SitesSearch(tx))

ExtractTrace(tx) == ExtractParsed(tx, json_loads(tx))

extract_sites_from_text(tx) == ExtractTrace(tx).sites

\* lines 103-107: the fallback of fetch_and_extract
FetchFallback(sites) == IF Len(sites) > 0 THEN sites ELSE <<>>

\* the checks on r.json() answering [] for a decoded document of another
\* shape instead of handing the text to the extractor
FetchJsonNoFallback(tx, obj) ==
    IF obj.ok /\ IsDict(obj.val) /\ HasKey(obj.val, "sites")
       /\ IsList(Get(obj.val, "sites"))
    THEN Get(obj.val, "sites").kids
    ELSE IF obj.ok /\ IsList(obj.val) THEN obj.val.kids
    ELSE IF obj.ok THEN <<>>
    ELSE FetchFallback(extract_sites_from_text(tx))

\* lines 90-101: the checks on r.json()
FetchJson(tx, obj) ==
    IF obj.ok /\ IsDict(obj.val) /\ HasKey(obj.val, "sites")
       /\ IsList(Get(obj.val, "sites"))
    THEN Get(obj.val, "sites").kids
    ELSE IF obj.ok /\ IsList(obj.val) THEN obj.val.kids
    ELSE IF obj.ok /\ IsDict(obj.val) /\ IsList(DictGet(obj.val, "sites"))
         THEN DictGet(obj.val, "sites").kids
    ELSE FetchFallback(extract_sites_from_text(tx))

\* the body of fetch_and_extract once the response has status 200:
\* r.json() decodes the same body text that r.text holds
FetchBody(tx) == FetchJson(tx, json_loads(tx))

\* an exception of requests.get, or a response with its status and body text
Exc == [kind |-> "exc", status |-> 0, body |-> <<>>]
Http(status, body) == [kind |-> "http", status |-> status, body |-> body]

\* a fetch that skips a URL it has requested before
IssuesGetOnce(url) == Truthy(url) /\ \A i \in 1..Len(gets) : gets[i].url # url

\* whether fetch_and_extract(url) reaches requests.get
IssuesGet(url) == Truthy(url)

\* fetch_and_extract without the status check of lines 85-87
fetch_and_extract_any_status(url, resp) ==
    IF ~Truthy(url) THEN <<>>
    ELSE IF resp.kind = "exc" THEN <<>>
    ELSE FetchBody(resp.body)

\* fetch_and_extract(url) when requests.get answers `resp`
fetch_and_extract(url, resp) ==
    IF ~Truthy(url) THEN <<>>
    ELSE IF resp.kind = "exc" THEN <<>>
    ELSE IF resp.status # 200 THEN <<>>
    ELSE FetchBody(resp.body)

----------------------------------------------------------------------------
(* The extractor on its own: every text of a bounded family is given to    *)
(* extract_sites_from_text and, as the body of a 200 response, to          *)
(* fetch_and_extract.                                                      *)

MaxMid == 4

SeqsUpTo(S, n) == UNION {[1..k -> S] : k \in 0..n}

\* what stands before and after the key and the array: nothing, the braces of
\* a document, an array around a document, junk, a trailing comma
Frames ==
    { [pre |-> <<>>, post |-> <<>>],
      [pre |-> <<P("{")>>, post |-> <<P("}")>>],
      [pre |-> <<P("["), P("{")>>, post |-> <<P("}"), P("]")>>],
      [pre |-> <<Junk, Ws>>, post |-> <<Ws, Junk>>],
      [pre |-> <<>>, post |-> <<P(","), Ws, P("]")>>],
      [pre |-> <<P("{")>>, post |-> <<P(","), P("}")>>] }
KeyParts == {<<>>, <<StrLit("sites"), P(":")>>, <<StrLit("sites"), Ws, P(":"), Ws>>,
             <<StrLit("SITES"), P(":")>>}
MidAlphabet == {P("["), P("]"), P(","), P("{"), P("}"), Num("1"), Ws}

\* two number literals never stand side by side: they would be one literal
WellLexed(tx) == \A i \in 1..(Len(tx) - 1) : ~(tx[i].k = "num" /\ tx[i + 1].k = "num")

\* the runs of at most n lexemes between key and frame
Mids(n) == {m \in SeqsUpTo(MidAlphabet, n) : WellLexed(m)}

NoTrace == [sites |-> <<>>, step |-> -1]

InitExtract ==
    /\ pc = "text"
    /\ \E f \in Frames, key \in KeyParts, mid \in Mids(MaxMid) :
          text = f.pre \o key \o mid \o f.post
    /\ ext = NoTrace
    /\ fae = <<>>
    /\ data = JNull /\ max = 0 /\ urls = <<>> /\ idx = 0 /\ processed = 0
    /\ merged = <<>> /\ seen = {} /\ gets = <<>> /\ fetched = <<>>
    /\ written = 0 /\ out = <<>> /\ exit_code = -1
    /\ a = JNull /\ b = JNull /\ ka = <<>> /\ kb = <<>>

\* extract_sites_from_text(text)
ExtractText ==
    /\ pc = "text"
    /\ ext' = ExtractTrace(text)
    /\ pc' = "extracted"
    /\ UNCHANGED <<text, fae, mainVars, canonVars>>

\* fetch_and_extract(url) on a 200 response whose body is text
FetchText ==
    /\ pc = "extracted"
    /\ fae' = fetch_and_extract(JStr("http://a"), Http(200, text))
    /\ pc' = "fetched"
    /\ UNCHANGED <<text, ext, mainVars, canonVars>>

NextExtract == ExtractText \/ FetchText

SpecExtract == InitExtract /\ [][NextExtract]_vars

----------------------------------------------------------------------------
(* The canonicalizer on its own: normalize_site on every pair of values of *)
(* a bounded family of decoded JSON values.                                *)

MaxNodes == 4

CanonScalars == {JInt("1"), JStr("1")}
CanonKeys == {"a", "b"}

\* the orders in which n distinct keys can have been inserted
KeySeqs(n) == {ks \in [1..n -> CanonKeys] : \A i, j \in 1..n : i # j => ks[i] # ks[j]}

RECURSIVE ValsOfSize(_)
RECURSIVE KidSeqs(_)

\* the sequences of values that have m nodes in all
KidSeqs(m) ==
    IF m = 0 THEN {<<>>}
    ELSE UNION {{<<v>> \o r : v \in ValsOfSize(s), r \in KidSeqs(m - s)} : s \in 1..m}

\* the values that have n nodes: a scalar, or a list or dict around n - 1 nodes
ValsOfSize(n) ==
    IF n = 1 THEN CanonScalars
    ELSE {JArr(k) : k \in KidSeqs(n - 1)}
         \cup UNION {{JObj(ks, k) : ks \in KeySeqs(Len(k))} :
                        k \in {q \in KidSeqs(n - 1) : Len(q) <= Cardinality(CanonKeys)}}

\* the values of at most n nodes, and the two empty containers
CanonVals(n) == {JArr(<<>>), JObj(<<>>, <<>>)} \cup UNION {ValsOfSize(k) : k \in 1..n}

InitCanon ==
    /\ pc = "values"
    /\ \E vals \in {CanonVals(MaxNodes)} : a \in vals /\ b \in vals
    /\ ka = <<>> /\ kb = <<>>
    /\ data = JNull /\ max = 0 /\ urls = <<>> /\ idx = 0 /\ processed = 0
    /\ merged = <<>> /\ seen = {} /\ gets = <<>> /\ fetched = <<>>
    /\ written = 0 /\ out = <<>> /\ exit_code = -1
    /\ text = <<>> /\ ext = NoTrace /\ fae = <<>>

\* key = normalize_site(s), for both values
Normalize ==
    /\ pc = "values"
    /\ ka' = normalize_site(a)
    /\ kb' = normalize_site(b)
    /\ pc' = "keyed"
    /\ UNCHANGED <<a, b, mainVars, extractVars>>

NextCanon == Normalize

SpecCanon == InitCanon /\ [][NextCanon]_vars

RECURSIVE StructEq(_, _)
\* structural equality of two decoded values: same type and literal for
\* scalars, same elements in the same order for lists, same key set with
\* equal values under each key for dicts
StructEq(x, y) ==
    /\ x.t = y.t
    /\ CASE x.t = "arr" ->
              /\ Len(x.kids) = Len(y.kids)
              /\ \A i \in 1..Len(x.kids) : StructEq(x.kids[i], y.kids[i])
         [] x.t = "obj" ->
              /\ Range(x.keys) = Range(y.keys)
              /\ \A k \in Range(x.keys) : StructEq(Get(x, k), Get(y, k))
         [] OTHER -> x.lit = y.lit

\* C4: two values have the same canonical key exactly when they are
\* structurally equal: key order never matters, anything else always does.
C4_KeyIffStructEq == pc = "keyed" => ((ka = kb) <=> StructEq(a, b))

\* two dicts that differ only in the order of their keys, inside a list,
\* have been given the same key
C4_Witness ==
    /\ pc = "keyed"
    /\ a # b /\ ka = kb
    /\ a.t = "arr" /\ Len(a.kids) = 1 /\ a.kids[1].t = "obj" /\ Len(a.kids[1].keys) = 2

----------------------------------------------------------------------------
(* Index resolution (main, lines 127-139).                                 *)

\* the matches of https?://[^\s'",]+ inside one output lexeme of json.dumps:
\* a match never leaves a string's content, so it is listed per content
UrlMatches(tok) ==
    CASE tok \in {"http://a", "http://b", "http://c"} -> <<JStr(tok)>>
      [] tok = "see http://a, http://b" -> <<JStr("http://a"), JStr("http://b")>>
      [] OTHER -> <<>>

RECURSIVE FindUrls(_, _)
\* re.finditer over the serialized document, from lexeme i on
FindUrls(toks, i) ==
    IF i > Len(toks) THEN <<>>
    ELSE UrlMatches(toks[i]) \o FindUrls(toks, i + 1)

\* the keys tried in another order: Url before url
EntryUrlSwapped(entry) ==
    PyOr(PyOr(DictGet(entry, "Url"), DictGet(entry, "url")), DictGet(entry, "link"))

\* u = entry.get("url") or entry.get("Url") or entry.get("link")
EntryUrl(entry) ==
    PyOr(PyOr(DictGet(entry, "url"), DictGet(entry, "Url")), DictGet(entry, "link"))

RECURSIVE ResolveEntries(_, _)
\* the loop over data["urls"], from entry i on
ResolveEntries(entries, i) ==
    IF i > Len(entries) THEN <<>>
    ELSE LET entry == entries[i]
             here == IF IsDict(entry)
                     THEN (IF Truthy(EntryUrl(entry)) THEN <<EntryUrl(entry)>> ELSE <<>>)
                     ELSE IF IsStr(entry) THEN <<entry>>
                     ELSE <<>>
         IN here \o ResolveEntries(entries, i + 1)

HasUrlsList(d) == IsDict(d) /\ HasKey(d, "urls") /\ IsList(Get(d, "urls"))

\* the list `urls` that main builds from the index document
ResolveUrls(d) ==
    IF HasUrlsList(d) THEN ResolveEntries(Get(d, "urls").kids, 1)
    ELSE FindUrls(Dumps(d, FALSE), 1)

----------------------------------------------------------------------------
(* The run of main().                                                      *)

MaxUrls == 3
MaxCap == 2

RECURSIVE Join(_, _)
\* the texts of `parts` from i on with `sep` between them
Join(parts, sep) ==
    IF Len(parts) = 0 THEN <<>>
    ELSE IF Len(parts) = 1 THEN parts[1]
    ELSE parts[1] \o sep \o Join(Tail(parts), sep)

\* the texts of three sites: SiteP and SiteQ differ in key order only
SiteP == <<P("{"), StrLit("a"), P(":"), Num("1"), P(","), StrLit("b"), P(":"), Num("2"), P("}")>>
SiteQ == <<P("{"), StrLit("b"), P(":"), Num("2"), P(","), StrLit("a"), P(":"), Num("1"), P("}")>>
SiteR == <<P("{"), StrLit("a"), P(":"), Num("2"), P("}")>>

\* response bodies: a document with a sites array, a bare array, junk around
\* an array with a trailing comma, a document whose key is upper case, a
\* document without sites, and an empty sites array
Bodies ==
    { <<P("{"), StrLit("sites"), P(":"), P("[")>> \o Join(<<SiteP, SiteQ>>, <<P(",")>>)
          \o <<P("]"), P("}")>>,
      <<P("[")>> \o Join(<<SiteQ, SiteR>>, <<P(","), Ws>>) \o <<P("]")>>,
      <<Junk, Ws, StrLit("sites"), P(":"), Ws, P("[")>> \o Join(<<SiteR, SiteP>>, <<P(",")>>)
          \o <<P(","), Ws, P("]"), Junk>>,
      <<P("{"), StrLit("SITES"), P(":"), P("[")>> \o SiteR \o <<P("]"), P("}")>>,
      <<P("{"), StrLit("a"), P(":"), Num("1"), P("}")>>,
      <<P("{"), StrLit("sites"), P(":"), P("["), P("]"), P("}")>> }

\* the page a server sends with a 404: it may hold a sites array too
ErrorPage == <<P("{"), StrLit("sites"), P(":"), P("[")>> \o SiteR \o <<P("]"), P("}")>>

MainResponses == {Exc, Http(404, ErrorPage)} \cup {Http(200, body) : body \in Bodies}

\* what requests.get can answer for `url`: anything for a string, an
\* exception for a value that is no string
Responses(url) == IF IsStr(url) THEN MainResponses ELSE {Exc}

\* fetch_and_extract on the responses of the run, evaluated once per response
\* (past its first line the function does not read `url`)
FetchMemo == [resp \in MainResponses |-> fetch_and_extract(JStr("http://a"), resp)]

FetchSites(url, resp) == IF Truthy(url) THEN FetchMemo[resp] ELSE <<>>

MainEntries == {JStr(""), JStr("http://a"), JStr("http://b")}

\* index documents: {"urls": [...]} over at most n of the entries above, a document with
\* object entries, and a bare list (no "urls" key: the regex fallback)
IndexDocs(n) ==
    {JObj(<<"urls">>, <<JArr(es)>>) : es \in SeqsUpTo(MainEntries, n)}
    \cup {JObj(<<"urls">>, <<JArr(<<JObj(<<"url">>, <<JStr("http://a")>>),
                                    JObj(<<"link">>, <<JInt("1")>>)>>)>>),
          JArr(<<JStr("http://b"), JStr("see http://a, http://b")>>)}

Caps == (-1)..MaxCap

InitMain ==
    /\ pc = "start"
    /\ max \in Caps
    /\ data = JNull /\ urls = <<>> /\ idx = 0 /\ processed = 0
    /\ merged = <<>> /\ seen = {} /\ gets = <<>> /\ fetched = <<>>
    /\ written = 0 /\ out = <<>> /\ exit_code = -1
    /\ a = JNull /\ b = JNull /\ ka = <<>> /\ kb = <<>>
    /\ text = <<>> /\ ext = NoTrace /\ fae = <<>>

\* load_input succeeds with document d; urls, merged, seen, processed are set
LoadOk(d) ==
    /\ pc = "start"
    /\ data' = d
    /\ urls' = ResolveUrls(d)
    /\ merged' = <<>> /\ seen' = {} /\ processed' = 0
    /\ idx' = 1
    /\ pc' = "loop"
    /\ UNCHANGED <<max, gets, fetched, written, out, exit_code, canonVars, extractVars>>

\* load_input raises and the run goes on without sys.exit(1)
LoadFailContinues ==
    /\ pc = "start"
    /\ urls' = <<>> /\ idx' = 1
    /\ pc' = "loop"
    /\ UNCHANGED <<data, max, processed, merged, seen, gets, fetched,
                   written, out, exit_code, canonVars, extractVars>>

\* load_input raises: [FATAL], sys.exit(1)
LoadFail ==
    /\ pc = "start"
    /\ exit_code' = 1
    /\ pc' = "exit"
    /\ UNCHANGED <<data, max, urls, idx, processed, merged, seen, gets, fetched,
                   written, out, canonVars, extractVars>>

RECURSIVE MergeLoopNoMark(_, _, _, _)
\* the merge loop without seen.add(key)
MergeLoopNoMark(m, sn, sites, i) ==
    IF i > Len(sites) THEN [merged |-> m, seen |-> sn]
    ELSE IF normalize_site(sites[i]) \notin sn
         THEN MergeLoopNoMark(Append(m, sites[i]), sn, sites, i + 1)
         ELSE MergeLoopNoMark(m, sn, sites, i + 1)

RECURSIVE MergeLoopPrepend(_, _, _, _)
\* the merge loop with merged.insert(0, s) for merged.append(s)
MergeLoopPrepend(m, sn, sites, i) ==
    IF i > Len(sites) THEN [merged |-> m, seen |-> sn]
    ELSE IF normalize_site(sites[i]) \notin sn
         THEN MergeLoopPrepend(<<sites[i]>> \o m, sn \cup {normalize_site(sites[i])},
                               sites, i + 1)
         ELSE MergeLoopPrepend(m, sn, sites, i + 1)

RECURSIVE MergeLoop(_, _, _, _)
\* for s in sites: key = normalize_site(s); if key not in seen: add, append
MergeLoop(m, sn, sites, i) ==
    IF i > Len(sites) THEN [merged |-> m, seen |-> sn]
    ELSE LET key == normalize_site(sites[i])
         IN IF key \notin sn
            THEN MergeLoop(Append(m, sites[i]), sn \cup {key}, sites, i + 1)
            ELSE MergeLoop(m, sn, sites, i + 1)

\* the break one pass late: processed > args.max
CapReachedLate == max # 0 /\ processed > max

\* if args.max and processed >= args.max: break
CapReached == max # 0 /\ processed >= max

\* lines 150-154 on the list `sites` that fetch_and_extract(u) returned
MergeInto(r, sites) ==
    /\ fetched' = Append(fetched, sites)
    /\ merged' = r.merged
    /\ seen' = r.seen

\* one pass of the for loop over urls, requests.get answering `resp`
Iterate(resp) ==
    /\ pc = "loop"
    /\ idx <= Len(urls)
    /\ ~CapReached
    /\ gets' = IF IssuesGet(urls[idx])
               THEN Append(gets, [url |-> urls[idx], status |-> resp.status])
               ELSE gets
    /\ MergeInto(MergeLoop(merged, seen, FetchSites(urls[idx], resp), 1),
                 FetchSites(urls[idx], resp))
    /\ processed' = processed + 1
    /\ idx' = idx + 1
    /\ UNCHANGED <<pc, data, max, urls, written, out, exit_code, canonVars, extractVars>>

\* the loop ends (list exhausted or break); the output file is written
Finish ==
    /\ pc = "loop"
    /\ (idx > Len(urls) \/ CapReached)
    /\ out' = JObj(<<"sites">>, <<JArr(merged)>>)
    /\ written' = written + 1
    /\ exit_code' = 0
    /\ pc' = "done"
    /\ UNCHANGED <<data, max, urls, idx, processed, merged, seen, gets, fetched,
                   canonVars, extractVars>>

Next ==
    \/ \E d \in IndexDocs(MaxUrls) : LoadOk(d)
    \/ LoadFail
    \/ (pc = "loop" /\ idx <= Len(urls) /\ \E resp \in Responses(urls[idx]) : Iterate(resp))
    \/ Finish

Spec == InitMain /\ [][Next]_vars

----------------------------------------------------------------------------
(* Index resolution on its own: the list `urls` of every index document of *)
(* a bounded family.                                                       *)

MaxEntries == 2

\* what an object entry may hold under one of its keys
Held(k, url) ==
    {<<>>, <<[key |-> k, val |-> JStr("")]>>, <<[key |-> k, val |-> JStr(url)]>>}

EntryOf(members) ==
    JObj([i \in 1..Len(members) |-> members[i].key],
         [i \in 1..Len(members) |-> members[i].val])

IndexEntries ==
    {JStr(""), JStr("http://a"), JInt("1"), JNull, JArr(<<JStr("http://a")>>)}
    \cup {EntryOf(l \o u \o c) :
            l \in Held("link", "http://c"), u \in Held("url", "http://a"),
            c \in Held("Url", "http://b")}
    \cup {JObj(<<"nope">>, <<JStr("z")>>),
          JObj(<<"url", "link">>, <<JNull, JStr("http://c")>>),
          JObj(<<"url">>, <<JInt("1")>>),
          JObj(<<"Url", "url">>, <<JStr("http://b"), JInt("0")>>)}

\* index documents with at most n entries, and three without a urls list
IndexFamily(n) ==
    {JObj(<<"urls">>, <<JArr(es)>>) : es \in SeqsUpTo(IndexEntries, n)}
    \cup {JObj(<<"urls">>, <<JStr("http://a")>>),
          JObj(<<"list", "http://c">>, <<JArr(<<JStr("http://b")>>), JStr("z")>>),
          JArr(<<JStr("see http://a, http://b"), JStr("http://a")>>)}

InitIndex ==
    /\ pc = "index"
    /\ data \in IndexFamily(MaxEntries)
    /\ max = 0 /\ urls = <<>> /\ idx = 0 /\ processed = 0
    /\ merged = <<>> /\ seen = {} /\ gets = <<>> /\ fetched = <<>>
    /\ written = 0 /\ out = <<>> /\ exit_code = -1
    /\ a = JNull /\ b = JNull /\ ka = <<>> /\ kb = <<>>
    /\ text = <<>> /\ ext = NoTrace /\ fae = <<>>

\* lines 127-139 on the loaded document
ResolveIndex ==
    /\ pc = "index"
    /\ urls' = ResolveUrls(data)
    /\ pc' = "resolved"
    /\ UNCHANGED <<data, max, idx, processed, merged, seen, gets, fetched,
                   written, out, exit_code, canonVars, extractVars>>

NextIndex == ResolveIndex

SpecIndex == InitIndex /\ [][NextIndex]_vars

----------------------------------------------------------------------------
(* The claims.                                                             *)

Min(x, y) == IF x <= y THEN x ELSE y

RECURSIVE Flatten(_)
\* the concatenation of the lists of a list
Flatten(seqs) == IF Len(seqs) = 0 THEN <<>> ELSE Head(seqs) \o Flatten(Tail(seqs))

RECURSIVE FirstOccurrences(_, _)
\* the elements of seq, from i on, that are structurally equal to no earlier one
FirstOccurrences(seq, i) ==
    IF i > Len(seq) THEN <<>>
    ELSE (IF \E j \in 1..(i - 1) : StructEq(seq[j], seq[i]) THEN <<>> ELSE <<seq[i]>>)
         \o FirstOccurrences(seq, i + 1)

IsPrefix(s, t) == Len(s) <= Len(t) /\ SubSeq(t, 1, Len(s)) = s

\* the URLs of the GET requests made so far, in order
GetUrls == [i \in 1..Len(gets) |-> gets[i].url]

\* the number of list positions the loop passes before it ends
Target == IF max = 0 THEN Len(urls) ELSE IF max < 0 THEN 0 ELSE Min(max, Len(urls))

\* C1: no two entries of merged have the same canonical key, and every
\* entry that some fetch returned is in merged exactly once, however often
\* and in whatever key order it was returned.
C1_NoDuplicateKeys ==
    /\ \A i, j \in 1..Len(merged) :
          i # j => normalize_site(merged[i]) # normalize_site(merged[j])
    /\ \A k \in 1..Len(Flatten(fetched)) :
          Cardinality({i \in 1..Len(merged) : StructEq(merged[i], Flatten(fetched)[k])}) = 1

\* the run has ended, two URLs returned the same site with its keys in a
\* different order, and merged holds two distinct sites
C1_Witness ==
    /\ pc = "done"
    /\ Len(merged) = 2
    /\ \E m, n \in 1..Len(fetched) :
          /\ m < n
          /\ \E x \in Range(fetched[m]), y \in Range(fetched[n]) : x # y /\ StructEq(x, y)

\* C2: merged is always the first-occurrence subsequence of the
\* concatenation of the lists fetched so far, and a step only ever appends
\* to it.
C2_FirstOccurrenceOrder ==
    /\ [](merged = FirstOccurrences(Flatten(fetched), 1))
    /\ [][IsPrefix(merged, merged')]_vars

\* the run has ended after two lists were merged, a later occurrence was
\* discarded and two entries were kept
C2_Witness ==
    /\ pc = "done"
    /\ Len(fetched) >= 2
    /\ Len(merged) >= 2
    /\ Len(Flatten(fetched)) > Len(merged)
    /\ Len(fetched[1]) > 0 /\ Len(fetched[Len(fetched)]) > 0

\* a step of the loop whose GET raised or answered a status other than 200
FailedFetchStep == Len(gets') = Len(gets) + 1 /\ gets'[Len(gets')].status # 200

C6_Original ==
    (pc = "done" /\ max >= 1) => GetUrls = SubSeq(urls, 1, Min(max, Len(urls)))

\* C6 as amended: with --max m >= 1 the loop passes exactly the first
\* min(m, n) list positions; the GET requests are those of the non-empty URLs
\* among them, one each and in order, and none is made past the cap.
C6_CapOnProcessed ==
    (pc \in {"loop", "done"} /\ max >= 1) =>
        /\ processed <= Min(max, Len(urls))
        /\ Len(fetched) = processed
        /\ GetUrls = SelectSeq(SubSeq(urls, 1, processed), Truthy)
        /\ (pc = "done" => processed = Min(max, Len(urls)))

\* the run has ended on the cap, a URL past the cap was left out, and an
\* empty URL string took one of the places
C6_Witness ==
    /\ pc = "done"
    /\ max >= 1 /\ Len(urls) > max
    /\ Truthy(urls[max + 1])
    /\ processed = max
    /\ Len(gets) < max

\* C8 as stated: without a cap the GET requests are exactly the URL list.
C8_Original == (pc = "done" /\ max = 0) => GetUrls = urls

\* C8 as amended: without a cap the GET requests are exactly the non-empty
\* entries of the URL list, one per position and in list order: a URL listed
\* twice is requested twice and a failed one is not requested again.
C8_SequentialAttempts ==
    /\ [](max = 0 =>
            /\ GetUrls = SelectSeq(SubSeq(urls, 1, processed), Truthy)
            /\ (pc = "done" => processed = Len(urls)))
    /\ [][max = 0 /\ gets' # gets =>
            /\ gets' = Append(gets, gets'[Len(gets')])
            /\ gets'[Len(gets')].url = urls[idx]
            /\ idx' = idx + 1]_vars

\* a run without cap has ended: one URL was listed twice and requested
\* twice, its first request failed, and an empty entry was passed over
C8_Witness ==
    /\ pc = "done" /\ max = 0
    /\ Len(urls) = 3 /\ urls[1] = urls[3] /\ ~Truthy(urls[2])
    /\ Len(gets) = 2
    /\ gets[1].status # 200 /\ gets[2].status = 200

Step1Qualifies(tx) ==
    /\ json_loads(tx).ok
    /\ \/ IsList(json_loads(tx).val)
       \/ /\ IsDict(json_loads(tx).val)
          /\ HasKey(json_loads(tx).val, "sites")
          /\ IsList(Get(json_loads(tx).val, "sites"))

Step1Answer(tx) ==
    IF IsList(json_loads(tx).val) THEN json_loads(tx).val.kids
    ELSE Get(json_loads(tx).val, "sites").kids

\* step 2 answers: the pattern matches and its capture is a JSON array
Step2Qualifies(tx) ==
    /\ SitesSearch(tx).found
    /\ json_loads(SitesSearch(tx).group1).ok
    /\ IsList(json_loads(SitesSearch(tx).group1).val)

\* step 3 answers: the capture without its trailing commas is a JSON array
Repaired(tx) == json_loads(StripTrailingCommas(SitesSearch(tx).group1, 1))
Step3Qualifies(tx) ==
    SitesSearch(tx).found /\ Repaired(tx).ok /\ IsList(Repaired(tx).val)

\* C3: extract_sites_from_text answers with the first of the three steps
\* that succeeds, in their fixed order, and with [] when none does; a text
\* that is JSON of another shape still goes through steps 2 and 3.
C3_FirstSuccessfulStep ==
    pc \in {"extracted", "fetched"} =>
        ext = IF Step1Qualifies(text) THEN [sites |-> Step1Answer(text), step |-> 1]
              ELSE IF Step2Qualifies(text)
                   THEN [sites |-> json_loads(SitesSearch(text).group1).val.kids, step |-> 2]
              ELSE IF Step3Qualifies(text) THEN [sites |-> Repaired(text).val.kids, step |-> 3]
              ELSE [sites |-> <<>>, step |-> 0]

\* a valid JSON document of another shape was answered by the regex path
C3_Witness ==
    /\ pc = "extracted"
    /\ json_loads(text).ok /\ ~Step1Qualifies(text)
    /\ ext.step = 2 /\ Len(ext.sites) > 0

\* C10: on a 200 response fetch_and_extract returns what
\* extract_sites_from_text returns for the body text.
C10_FetchEqualsExtract == pc = "fetched" => fae = ext.sites

\* the structured check of fetch_and_extract answered with a non-empty list
C10_Witness == pc = "fetched" /\ ext.step = 1 /\ Len(fae) > 0

RECURSIVE ClaimedUrls(_, _)
\* the URLs C7 states for the entries from i on: the value of the first key
\* present among url, Url, link
ClaimedUrls(entries, i) ==
    IF i > Len(entries) THEN <<>>
    ELSE LET e == entries[i]
         IN (CASE IsStr(e) -> <<e>>
               [] IsDict(e) /\ HasKey(e, "url") -> <<Get(e, "url")>>
               [] IsDict(e) /\ ~HasKey(e, "url") /\ HasKey(e, "Url") -> <<Get(e, "Url")>>
               [] IsDict(e) /\ ~HasKey(e, "url") /\ ~HasKey(e, "Url") /\ HasKey(e, "link") ->
                     <<Get(e, "link")>>
               [] OTHER -> <<>>)
            \o ClaimedUrls(entries, i + 1)

UrlKeys == <<"url", "Url", "link">>

RECURSIVE TruthyUrls(_, _)
\* the URLs of the amended C7: the first value, in the order url, Url, link,
\* that is present and truthy
TruthyUrls(entries, i) ==
    IF i > Len(entries) THEN <<>>
    ELSE LET e == entries[i]
             good == {n \in 1..3 : IsDict(e) /\ HasKey(e, UrlKeys[n]) /\ Truthy(Get(e, UrlKeys[n]))}
         IN (CASE IsStr(e) -> <<e>>
               [] good # {} -> <<Get(e, UrlKeys[CHOOSE n \in good : \A o \in good : n <= o])>>
               [] OTHER -> <<>>)
            \o TruthyUrls(entries, i + 1)

\* C7 as stated: an object entry contributes the value of the first key
\* present among url, Url, link.
C7_Original ==
    (pc = "resolved" /\ HasUrlsList(data)) => urls = ClaimedUrls(Get(data, "urls").kids, 1)

\* C7 as amended: a string entry is taken verbatim; an object entry
\* contributes the first value among url, Url, link (in that order) that is
\* present and truthy, and nothing when there is none; no other entry
\* contributes; order and duplicates are kept.
C7_FirstTruthyValue ==
    (pc = "resolved" /\ HasUrlsList(data)) => urls = TruthyUrls(Get(data, "urls").kids, 1)

\* an entry holds an empty url and a link, and the link was taken; the entry
\* after it has no usable key and was skipped
C7_Witness ==
    /\ pc = "resolved" /\ HasUrlsList(data)
    /\ Len(Get(data, "urls").kids) = 2
    /\ Get(data, "urls").kids[1] = JObj(<<"link", "url">>, <<JStr("http://c"), JStr("")>>)
    /\ Get(data, "urls").kids[2] = JObj(<<"nope">>, <<JStr("z")>>)
    /\ urls = <<JStr("http://c")>>

====
